---- MODULE Spec2Model ----
(***************************************************************************)
(* The campus-safety assistant's RAG core: RAGService                      *)
(* (backend/services/ragService.ts) and, from the chat controller          *)
(* (backend/controllers/chatController.ts), the askQuestion pipeline, the  *)
(* deletion of a conversation and the ingestion of an uploaded document.   *)
(*                                                                         *)
(* A request is handled by one async function; every `await` is a point    *)
(* where the handler yields, so every awaited call is one action.  The     *)
(* replies of the collaborators the handler awaits (embedding provider,    *)
(* document index, generative provider, the collections) are inputs,       *)
(* drawn from the small sets below.                                        *)
(***************************************************************************)
EXTENDS Integers, Sequences, FiniteSets, TLC

\* ---------------------------------------------------------------- bounds
MaxAsks == 2      \* requests received in one behaviour
MaxUploads == 2   \* documents uploaded before deletions are tried

\* ------------------------------------------------------ program constants
DefaultLimit   == 3     \* searchDocuments(query, embedding, limit = 3)
LastMessageLen == 100   \* answer.substring(0, 100)
TitleMaxLen    == 50    \* question.length > 50
TitleCutLen    == 47    \* question.substring(0, 47) + '...'
MaxQuestionLen == 1000  \* "Question is too long (max 1000 characters)"
EmbeddingDim   == 1024  \* voyage-3-large: 1024 dimensions
ChunkThreshold == 2000  \* cleanedContent.length > 2000
ChunkSize      == 1000  \* chunkText(cleanedContent, 1000, 200)
ChunkOverlap   == 200
DefaultPageSize == 20   \* limit = '20' of getDocuments
ExcerptBudget  == 1000  \* truncateText(doc.content, 1000)

Requests == {1}                 \* handlers that can be in flight
Handlers == {1, 2}              \* ... and when two asks run side by side
Users    == {"u1", "u2"}
NoUser   == "anonymous"          \* req.user is undefined

Min(a, b) == IF a < b THEN a ELSE b

\* ------------------------------------------------------------------ text
\* A string is its source, its length and the number of leading whitespace
\* characters; a blank string has lead = len.  Trailing whitespace is left
\* out of the inputs.
Undefined == [defined |-> FALSE]
Str(src, len, lead) == [defined |-> TRUE, src |-> src, len |-> len, lead |-> lead]

\* String.prototype.trim
Trim(t) == Str(t.src, t.len - t.lead, 0)

\* String.prototype.substring(0, n)
Substring(t, n) == Str(t.src, Min(t.len, n), Min(t.lead, n))

\* JavaScript truthiness of a string-or-undefined value
Truthy(t) == t.defined /\ t.len > 0

\* ------------------------------------------------------------ embeddings
Null      == [kind |-> "null"]
Vector(n) == [kind |-> "vector", dim |-> n]

\* Replies of the embedding provider to axios.post.  A "Body" reply is a 2xx
\* response; depth is how far response.data?.data?.[0]?.embedding resolves:
\* 0 no response.data, 1 no data.data, 2 data.data is empty, 3 the first item
\* has no embedding, 4 the embedding is there.
NoReply == [kind |-> "NoReply"]
NoCall  == [kind |-> "NoCall"]
Body(depth, e) == [kind |-> "Body", depth |-> depth, embedding |-> e]
EmbeddingReplies ==
    { [kind |-> "NetworkError"], [kind |-> "HttpError"], NoReply,
      Body(0, Null), Body(1, Null), Body(2, Null), Body(3, Null),
      Body(4, Vector(0)), Body(4, Vector(EmbeddingDim)) }

\* response.data?.data?.[0]?.embedding
OptionalChain(reply) == IF reply.depth = 4 THEN reply.embedding ELSE Null

\* generateEmbedding(text) with the provider replying `reply`: whether it
\* called the provider, whether the awaited call is still pending, whether
\* it threw into its caller, and the value it returns.
EmbeddingResult(networkCall, pending, threw, value) ==
    [networkCall |-> networkCall, pending |-> pending, threw |-> threw,
     value |-> value]

\* generateEmbedding throwing on a missing key instead of returning null
generateEmbedding_ThrowsWithoutKey(key, reply) ==
    IF key = "" THEN EmbeddingResult(FALSE, FALSE, TRUE, Null)
    ELSE IF reply.kind = "NoReply" THEN EmbeddingResult(TRUE, TRUE, FALSE, Null)
    ELSE IF reply.kind \in {"NetworkError", "HttpError"}
    THEN EmbeddingResult(TRUE, FALSE, FALSE, Null)
    ELSE EmbeddingResult(TRUE, FALSE, FALSE, OptionalChain(reply))

\* generateEmbedding without the catch: a rejected axios.post propagates
generateEmbedding_Uncaught(key, reply) ==
    IF key = "" THEN EmbeddingResult(FALSE, FALSE, FALSE, Null)
    ELSE IF reply.kind = "NoReply" THEN EmbeddingResult(TRUE, TRUE, FALSE, Null)
    ELSE IF reply.kind \in {"NetworkError", "HttpError"}
    THEN EmbeddingResult(TRUE, FALSE, TRUE, Null)
    ELSE EmbeddingResult(TRUE, FALSE, FALSE, OptionalChain(reply))

generateEmbedding(key, reply) ==
    IF key = "" THEN EmbeddingResult(FALSE, FALSE, FALSE, Null)
    ELSE IF reply.kind = "NoReply" THEN EmbeddingResult(TRUE, TRUE, FALSE, Null)
    ELSE IF reply.kind \in {"NetworkError", "HttpError"}
    THEN EmbeddingResult(TRUE, FALSE, FALSE, Null)                  \* catch
    ELSE EmbeddingResult(TRUE, FALSE, FALSE, OptionalChain(reply))

\* ------------------------------------------------------------- retrieval
\* A retrieved document: vector search annotates a similarity score, text
\* search leaves it undefined.
Doc(id, scored) == [id |-> id, scored |-> scored]

Threw        == [threw |-> TRUE, docs |-> <<>>]
Returned(ds) == [threw |-> FALSE, docs |-> ds]
NotCalled    == [threw |-> FALSE, docs |-> <<>>, called |-> FALSE]

\* What DocumentModel.vectorSearch(embedding, limit) may do
VectorOutcomes ==
    { Threw, Returned(<<>>),
      Returned(<<Doc("d2", TRUE), Doc("d1", TRUE), Doc("d3", TRUE)>>) }

\* What DocumentModel.findSimilar(query, limit) may do
TextOutcomes ==
    { Threw, Returned(<<>>), Returned(<<Doc("d1", FALSE), Doc("d4", FALSE)>>) }

SearchResult(threw, results, vectorCalled, textCalled) ==
    [threw |-> threw, results |-> results, vectorCalled |-> vectorCalled,
     textCalled |-> textCalled]

\* searchDocuments returning the vector result even when it is empty
searchDocuments_ReturnsEmptyVectorResult(emb, vec, txt) ==
    LET tryVector == emb.kind = "vector" /\ emb.dim > 0 IN
    IF tryVector /\ ~vec.threw
    THEN SearchResult(FALSE, vec.docs, TRUE, FALSE)
    ELSE SearchResult(FALSE, IF txt.threw THEN <<>> ELSE txt.docs, tryVector, TRUE)

\* searchDocuments topping a vector result up with text results
searchDocuments_Merging(emb, vec, txt) ==
    LET tryVector == emb.kind = "vector" /\ emb.dim > 0
        vectorHit == tryVector /\ ~vec.threw /\ Len(vec.docs) > 0
        textDocs  == IF txt.threw THEN <<>> ELSE txt.docs
    IN  SearchResult(FALSE, IF vectorHit THEN vec.docs \o textDocs ELSE textDocs,
                     tryVector, TRUE)

\* searchDocuments without the try/catch around the text search
searchDocuments_TextSearchUncaught(emb, vec, txt) ==
    LET tryVector == emb.kind = "vector" /\ emb.dim > 0
        vectorHit == tryVector /\ ~vec.threw /\ Len(vec.docs) > 0
    IN  IF vectorHit
        THEN SearchResult(FALSE, vec.docs, TRUE, FALSE)
        ELSE SearchResult(txt.threw, txt.docs, tryVector, TRUE)

\* searchDocuments(query, embedding, limit) when vector search would do
\* `vec` and text search would do `txt`
searchDocuments(emb, vec, txt) ==
    LET tryVector   == emb.kind = "vector" /\ emb.dim > 0
        vectorHit   == tryVector /\ ~vec.threw /\ Len(vec.docs) > 0
    IN  IF vectorHit
        THEN SearchResult(FALSE, vec.docs, TRUE, FALSE)
        ELSE SearchResult(FALSE, IF txt.threw THEN <<>> ELSE txt.docs,
                          tryVector, TRUE)

\* ------------------------------------------------------------ generation
GenerationFailed == "Failed to generate response from AI service."

\* Replies of the generative provider: an error (quota, network, blocked
\* content makes response.text() throw), no reply at all, or a text.
GenerationReplies ==
    { [kind |-> "ProviderError"], NoReply,
      [kind |-> "Text", text |-> Undefined],
      [kind |-> "Text", text |-> Str("answer", 0, 0)],
      [kind |-> "Text", text |-> Str("answer", 2, 2)],
      [kind |-> "Text", text |-> Str("answer", 22, 2)],
      [kind |-> "Text", text |-> Str("answer", 150, 0)] }

\* generateAnswer(question, context) with the provider replying `reply`
AnswerResult(pending, threw, message, value) ==
    [pending |-> pending, threw |-> threw, message |-> message, value |-> value]

generateAnswer(ctx, reply) ==
    IF reply.kind = "NoReply" THEN AnswerResult(TRUE, FALSE, "", Undefined)
    ELSE IF reply.kind = "ProviderError"
    THEN AnswerResult(FALSE, TRUE, GenerationFailed, Undefined)
    ELSE IF ~Truthy(reply.text) \/ Trim(reply.text).len = 0
    THEN AnswerResult(FALSE, TRUE, GenerationFailed, Undefined)
    ELSE AnswerResult(FALSE, FALSE, "", Trim(reply.text))

\* ---------------------------------------------------------------- prompt
\* A context document as generateAnswer reads it: title, category, content
\* and a similarity that is undefined or a number, kept in thousandths.
NoSimilarity  == [defined |-> FALSE]
Similarity(n) == [defined |-> TRUE, thousandths |-> n]
ContextDoc(title, category, similarity, content) ==
    [title |-> title, category |-> category, similarity |-> similarity,
     content |-> content]

NoDocumentsFound == "No specific documents found in the database."

\* truncateText(text, maxLength): the text cut to the budget
truncateText(text, maxLength) ==
    Str(text.src, Min(text.len, maxLength), text.lead)

\* doc.similarity ? ` (Relevance: ${(doc.similarity * 100).toFixed(1)}%)` : ''
\* the percentage is kept in tenths
Relevance(doc) ==
    IF doc.similarity.defined /\ doc.similarity.thousandths # 0
    THEN [shown |-> TRUE, tenths |-> doc.similarity.thousandths]
    ELSE [shown |-> FALSE]

\* `Document ${index + 1}: ${doc.title}${info}\nContent: ${...}`
RenderDocument(doc, index) ==
    [index     |-> index,
     title     |-> doc.title,
     relevance |-> Relevance(doc),
     content   |-> truncateText(doc.content, ExcerptBudget)]

\* the rendering without the branch for an empty context
contextText_NoStatement(ctx) ==
    [statement |-> "",
     documents |-> [i \in 1..Len(ctx) |-> RenderDocument(ctx[i], i)]]

\* const contextText = context && context.length > 0 ? ... : '...'
contextText(ctx) ==
    IF Len(ctx) > 0
    THEN [statement |-> "",
          documents |-> [i \in 1..Len(ctx) |-> RenderDocument(ctx[i], i)]]
    ELSE [statement |-> NoDocumentsFound, documents |-> <<>>]

\* the prompt handed to model.generateContent
Prompt(question, ctx) ==
    [system       |-> "You are Zeb AI",
     instructions |-> "Use the CONTEXT DOCUMENTS to answer the USER QUESTION",
     context      |-> contextText(ctx),
     question     |-> question]

\* ---------------------------------------------------------------- variables
VARIABLES
    voyageApiKey,   \* RAGService.voyageApiKey: "" when VOYAGE_API_KEY is unset
    pc,             \* pc[r]: the await the handler of request r is at
    req,            \* req[r]: user, body.question, body.conversationId
    embedding,      \* processQuestion: const embedding
    embedReply,     \* the provider reply generateEmbedding last received
    relevantDocs,   \* processQuestion: const relevantDocs
    searched,       \* the last searchDocuments call: its argument and paths
    answer,         \* processQuestion: const answer
    context,        \* the context generateAnswer was called with
    conversationId, \* askQuestion: let conversationId
    response,       \* what res.status(..).json(..) sent for request r
    calls,          \* outbound calls made so far for request r
    conversations,  \* the Conversation collection, by _id
    messages,       \* the Chat collection, in insertion order
    asks,           \* requests received so far
    dpc,            \* deleteConversation: the await the handler is at
    dreq,           \* deleteConversation: req.user, req.params.id
    documents,      \* the Document collection, by _id
    upc,            \* uploadDocument: the await the handler is at
    ureq,           \* uploadDocument: req.user, body.title, body.content
    cleanedContent, \* processAndSaveDocument: const cleanedContent
    chunks,         \* processAndSaveDocument: const chunks
    parentDoc,      \* processAndSaveDocument: const parentDoc (its _id)
    chunkPromises,  \* processAndSaveDocument: const chunkPromises
    embeddingCalls, \* the texts the upload has called generateEmbedding with
    docEmbedding,   \* processAndSaveDocument: const embedding (unsplit branch)
    uploadResponse, \* what uploadDocument sent with res.status(..).json(..)
    xpc,            \* deleteDocument: the await the handler is at
    xreq,           \* deleteDocument: req.user, req.params.id
    call,           \* a call of a function of the service: its arguments
    returned        \* what that call returned

askVars == <<pc, req, embedding, embedReply, relevantDocs, searched, answer,
             context, conversationId, response, calls, asks>>
chatVars == <<conversations, messages>>
deleteVars == <<dpc, dreq>>
ingestVars == <<documents, upc, ureq, cleanedContent, chunks, parentDoc,
                chunkPromises, embeddingCalls, docEmbedding, uploadResponse>>

removeVars == <<xpc, xreq>>
callVars == <<call, returned>>

vars == <<voyageApiKey, askVars, chatVars, deleteVars, ingestVars, removeVars,
          callVars>>

NoRequest  == [user |-> NoUser, question |-> Undefined, conversationId |-> 0]
NoResponse == [status |-> 0]
NoCalls    == [embed |-> 0, vector |-> 0, text |-> 0, generate |-> 0, store |-> 0]
NoSearch   == [called |-> FALSE]

Terminal == {"COMPLETED", "FAILED", "REJECTED"}

Init ==
    /\ voyageApiKey \in {"", "voyage-key"}
    /\ pc = [r \in Handlers |-> "IDLE"]
    /\ req = [r \in Handlers |-> NoRequest]
    /\ embedding = [r \in Handlers |-> Null]
    /\ embedReply = [r \in Handlers |-> NoCall]
    /\ relevantDocs = [r \in Handlers |-> <<>>]
    /\ searched = [r \in Handlers |-> NoSearch]
    /\ answer = [r \in Handlers |-> Undefined]
    /\ context = [r \in Handlers |-> <<>>]
    /\ conversationId = [r \in Handlers |-> 0]
    /\ response = [r \in Handlers |-> NoResponse]
    /\ calls = [r \in Handlers |-> NoCalls]
    /\ conversations = <<>>
    /\ messages = <<>>
    /\ asks = 0
    /\ dpc = "IDLE"
    /\ dreq = [user |-> NoUser, id |-> 0]
    /\ documents = <<>>
    /\ upc = "IDLE"
    /\ ureq = [user |-> NoUser, title |-> Undefined, content |-> Undefined]
    /\ cleanedContent = Undefined
    /\ chunks = <<>>
    /\ parentDoc = 0
    /\ chunkPromises = <<>>
    /\ embeddingCalls = <<>>
    /\ docEmbedding = Null
    /\ uploadResponse = NoResponse
    /\ xpc = "IDLE"
    /\ xreq = [user |-> NoUser, id |-> 0]
    /\ call = NoCall
    /\ returned = NoCall

\* ------------------------------------------------------------- responses
\* err.message of what askQuestion catches
StoreError     == "store error"
EmbeddingError == "embedding error"
SearchError    == "search error"

Reply401 == [status |-> 401, success |-> FALSE, message |-> "Not authorized"]
Reply400 == [status |-> 400, success |-> FALSE,
             message |-> "Please provide a question"]
Reply500(err) == [status |-> 500, success |-> FALSE,
                  message |-> "Error processing your question", error |-> err]
Reply200(question, ans, cid, docs) ==
    [status |-> 200, success |-> TRUE, question |-> question, answer |-> ans,
     conversationId |-> cid, sources |-> docs]

\* The checks askQuestion makes before it calls the RAG service: the
\* response it sends, or NoResponse when the question goes on.
Validate(user, question) ==
    IF user = NoUser THEN Reply401
    ELSE IF ~Truthy(question) \/ Trim(question).len = 0 THEN Reply400
    ELSE NoResponse

\* const title = question.length > 50 ? question.substring(0, 47) + '...' : question
ConversationTitle(question) ==
    IF question.len > TitleMaxLen
    THEN [text |-> Substring(question, TitleCutLen), ellipsis |-> TRUE]
    ELSE [text |-> question, ellipsis |-> FALSE]

\* findOne never matching (an id compared with a value of another type)
FindOne_NoMatch(id, user) == FALSE

\* FindOne matching on the id alone
FindOne_AnyOwner(id, user) ==
    /\ id \in 1..Len(conversations)
    /\ ~conversations[id].deleted

\* Conversation.findOne({ _id: id, user: user }) finds a document
FindOne(id, user) ==
    /\ id \in 1..Len(conversations)
    /\ ~conversations[id].deleted
    /\ conversations[id].user = user

\* the catch block of askQuestion
Fail(r, err) ==
    /\ pc' = [pc EXCEPT ![r] = "FAILED"]
    /\ response' = [response EXCEPT ![r] = Reply500(err)]

\* res.status(200).json(...) at the end of askQuestion
Succeed(r, cid) ==
    /\ pc' = [pc EXCEPT ![r] = "COMPLETED"]
    /\ response' = [response EXCEPT ![r] =
           Reply200(req[r].question, answer[r], cid, relevantDocs[r])]

\* --------------------------------------------------------------- actions
Questions ==
    { Undefined, Str("q", 0, 0), Str("q", 2, 2), Str("q", 10, 0),
      Str("q", MaxQuestionLen + 1, 0) }

\* body.conversationId: absent (0) or an id the store may hold
ConversationIds == 0..MaxAsks

\* POST /api/chat/ask arrives: askQuestion up to its first await
Receive(r) ==
    /\ pc[r] = "IDLE"
    /\ asks < MaxAsks
    /\ asks' = asks + 1
    /\ \E user \in Users \cup {NoUser}, question \in Questions,
          cid \in ConversationIds :
          LET v == Validate(user, question) IN
          /\ req' = [req EXCEPT ![r] = [user |-> user, question |-> question,
                                        conversationId |-> cid]]
          /\ response' = [response EXCEPT ![r] = v]
          /\ pc' = [pc EXCEPT ![r] =
                       IF v.status = 0 THEN "EMBEDDING" ELSE "REJECTED"]
    /\ UNCHANGED <<voyageApiKey, embedding, embedReply, relevantDocs, searched,
                   answer, context, conversationId, calls, conversations,
                   messages>>

\* processQuestion step 1: await this.generateEmbedding(question)
Embed(r) ==
    /\ pc[r] = "EMBEDDING"
    /\ \E reply \in EmbeddingReplies :
          LET g == generateEmbedding(voyageApiKey, reply) IN
          /\ embedReply' = [embedReply EXCEPT ![r] =
                               IF g.networkCall THEN reply ELSE NoCall]
          /\ calls' = [calls EXCEPT ![r].embed =
                          IF g.networkCall THEN @ + 1 ELSE @]
          /\ IF g.pending
             THEN /\ pc' = [pc EXCEPT ![r] = "EMBEDDING_PENDING"]
                  /\ UNCHANGED <<embedding, response>>
             ELSE IF g.threw
             THEN /\ Fail(r, EmbeddingError)
                  /\ UNCHANGED embedding
             ELSE /\ embedding' = [embedding EXCEPT ![r] = g.value]
                  /\ pc' = [pc EXCEPT ![r] = "RETRIEVING"]
                  /\ UNCHANGED response
    /\ UNCHANGED <<voyageApiKey, req, relevantDocs, searched, answer, context,
                   conversationId, conversations, messages, asks>>

\* processQuestion step 2: await this.searchDocuments(question, embedding)
Search(r) ==
    /\ pc[r] = "RETRIEVING"
    /\ \E vec \in VectorOutcomes, txt \in TextOutcomes :
          LET s == searchDocuments(embedding[r], vec, txt) IN
          /\ searched' = [searched EXCEPT ![r] =
                 [called |-> TRUE, embedding |-> embedding[r],
                  vector |-> IF s.vectorCalled THEN vec ELSE NotCalled,
                  text |-> IF s.textCalled THEN txt ELSE NotCalled,
                  threw |-> s.threw, results |-> s.results]]
          /\ calls' = [calls EXCEPT
                 ![r].vector = IF s.vectorCalled THEN @ + 1 ELSE @,
                 ![r].text = IF s.textCalled THEN @ + 1 ELSE @]
          /\ IF s.threw
             THEN /\ Fail(r, SearchError)
                  /\ UNCHANGED relevantDocs
             ELSE /\ relevantDocs' = [relevantDocs EXCEPT ![r] = s.results]
                  /\ pc' = [pc EXCEPT ![r] = "GENERATING"]
                  /\ UNCHANGED response
    /\ embedReply' = [embedReply EXCEPT ![r] = NoCall]
    /\ UNCHANGED <<voyageApiKey, req, embedding, answer, context,
                   conversationId, conversations, messages, asks>>

\* generateAnswer called with an empty context
GenerationContext_Empty(r) == <<>>

\* the context read back from a field of the shared service object, which
\* the latest search of any request has written
GenerationContext_Shared(r) ==
    IF \E o \in Handlers \ {r} : pc[o] \notin {"IDLE", "EMBEDDING", "RETRIEVING"}
    THEN relevantDocs[CHOOSE o \in Handlers \ {r} :
                         pc[o] \notin {"IDLE", "EMBEDDING", "RETRIEVING"}]
    ELSE relevantDocs[r]

\* the context argument of this.generateAnswer(question, relevantDocs)
GenerationContext(r) == relevantDocs[r]

\* processQuestion step 3: await this.generateAnswer(question, relevantDocs),
\* then askQuestion up to its next await
Generate(r) ==
    /\ pc[r] = "GENERATING"
    /\ context' = [context EXCEPT ![r] = GenerationContext(r)]
    /\ calls' = [calls EXCEPT ![r].generate = @ + 1]
    /\ searched' = [searched EXCEPT ![r] = NoSearch]
    /\ \E reply \in GenerationReplies :
          LET g == generateAnswer(GenerationContext(r), reply) IN
          IF g.pending
          THEN /\ pc' = [pc EXCEPT ![r] = "GENERATING_PENDING"]
               /\ UNCHANGED <<answer, conversationId, response>>
          ELSE IF g.threw
               THEN /\ Fail(r, g.message)
                    /\ UNCHANGED <<answer, conversationId>>
               ELSE /\ answer' = [answer EXCEPT ![r] = g.value]
                    /\ conversationId' = [conversationId EXCEPT ![r] =
                                             req[r].conversationId]
                    /\ pc' = [pc EXCEPT ![r] =
                                 IF req[r].conversationId # 0
                                 THEN "FIND_CONVERSATION"
                                 ELSE "CREATE_CONVERSATION"]
                    /\ UNCHANGED response
    /\ UNCHANGED <<voyageApiKey, req, embedding, embedReply, relevantDocs,
                   conversations, messages, asks>>

\* await Conversation.findOne({ _id: conversationId, user: req.user.id })
FindConversation(r) ==
    /\ pc[r] = "FIND_CONVERSATION"
    /\ calls' = [calls EXCEPT ![r].store = @ + 1]
    /\ \E ok \in BOOLEAN :
          IF ~ok THEN Fail(r, StoreError)
          ELSE /\ pc' = [pc EXCEPT ![r] =
                            IF FindOne(conversationId[r], req[r].user)
                            THEN "SAVE_CONVERSATION"
                            ELSE "CREATE_CONVERSATION"]
               /\ UNCHANGED response
    /\ UNCHANGED <<voyageApiKey, req, embedding, embedReply, relevantDocs,
                   searched, answer, context, conversationId, conversations,
                   messages, asks>>

\* conversation.lastMessage = answer.substring(0, 100); await conversation.save()
SaveConversation(r) ==
    /\ pc[r] = "SAVE_CONVERSATION"
    /\ calls' = [calls EXCEPT ![r].store = @ + 1]
    /\ \E ok \in BOOLEAN :
          IF ~ok
          THEN /\ Fail(r, StoreError)
               /\ UNCHANGED conversations
          ELSE /\ conversations' = [conversations EXCEPT
                      ![conversationId[r]].lastMessage =
                          Substring(answer[r], LastMessageLen)]
               /\ pc' = [pc EXCEPT ![r] = "CREATE_USER_MESSAGE"]
               /\ UNCHANGED response
    /\ UNCHANGED <<voyageApiKey, req, embedding, embedReply, relevantDocs,
                   searched, answer, context, conversationId, messages, asks>>

\* conversation = await Conversation.create({...}); conversationId = conversation._id
CreateConversation(r) ==
    /\ pc[r] = "CREATE_CONVERSATION"
    /\ calls' = [calls EXCEPT ![r].store = @ + 1]
    /\ \E ok \in BOOLEAN :
          IF ~ok
          THEN /\ Fail(r, StoreError)
               /\ UNCHANGED <<conversations, conversationId>>
          ELSE /\ conversations' = Append(conversations,
                      [user |-> req[r].user,
                       title |-> ConversationTitle(req[r].question),
                       lastMessage |-> Substring(answer[r], LastMessageLen),
                       deleted |-> FALSE])
               /\ conversationId' = [conversationId EXCEPT ![r] =
                                        Len(conversations) + 1]
               /\ pc' = [pc EXCEPT ![r] = "CREATE_USER_MESSAGE"]
               /\ UNCHANGED response
    /\ UNCHANGED <<voyageApiKey, req, embedding, embedReply, relevantDocs,
                   searched, answer, context, messages, asks>>

Message(r, role, text) ==
    [user |-> req[r].user, conversation |-> conversationId[r], role |-> role,
     text |-> text]

\* await Chat.create({ ..., role: 'user', text: question }) inside try/catch
CreateUserMessage(r) ==
    /\ pc[r] = "CREATE_USER_MESSAGE"
    /\ calls' = [calls EXCEPT ![r].store = @ + 1]
    /\ \E ok \in BOOLEAN :
          IF ~ok
          THEN /\ Succeed(r, conversationId[r])      \* catch (dbError)
               /\ UNCHANGED messages
          ELSE /\ messages' = Append(messages,
                                     Message(r, "user", req[r].question))
               /\ pc' = [pc EXCEPT ![r] = "CREATE_MODEL_MESSAGE"]
               /\ UNCHANGED response
    /\ UNCHANGED <<voyageApiKey, req, embedding, embedReply, relevantDocs,
                   searched, answer, context, conversationId, conversations,
                   asks>>

\* await Chat.create({ ..., role: 'model', text: answer }), then the response
CreateModelMessage(r) ==
    /\ pc[r] = "CREATE_MODEL_MESSAGE"
    /\ calls' = [calls EXCEPT ![r].store = @ + 1]
    /\ \E ok \in BOOLEAN :
          messages' = IF ok THEN Append(messages, Message(r, "model", answer[r]))
                      ELSE messages
    /\ Succeed(r, conversationId[r])
    /\ UNCHANGED <<voyageApiKey, req, embedding, embedReply, relevantDocs,
                   searched, answer, context, conversationId, conversations,
                   asks>>

\* the response has been sent: the handler's frame is gone
Close(r) ==
    /\ pc[r] \in Terminal
    /\ pc' = [pc EXCEPT ![r] = "IDLE"]
    /\ req' = [req EXCEPT ![r] = NoRequest]
    /\ embedding' = [embedding EXCEPT ![r] = Null]
    /\ embedReply' = [embedReply EXCEPT ![r] = NoCall]
    /\ relevantDocs' = [relevantDocs EXCEPT ![r] = <<>>]
    /\ searched' = [searched EXCEPT ![r] = NoSearch]
    /\ answer' = [answer EXCEPT ![r] = Undefined]
    /\ context' = [context EXCEPT ![r] = <<>>]
    /\ conversationId' = [conversationId EXCEPT ![r] = 0]
    /\ response' = [response EXCEPT ![r] = NoResponse]
    /\ calls' = [calls EXCEPT ![r] = NoCalls]
    /\ UNCHANGED <<voyageApiKey, conversations, messages, asks>>

\* One request is in flight at a time.
Quiet(r) == \A o \in Requests \ {r} : pc[o] = "IDLE"

\* The ask pipeline on its own: no upload and no deletion is in flight.
otherVars == <<deleteVars, ingestVars, removeVars, callVars>>

Next ==
    \E r \in Requests :
        \/ Quiet(r) /\ Receive(r) /\ UNCHANGED otherVars
        \/ Embed(r) /\ UNCHANGED otherVars
        \/ Search(r) /\ UNCHANGED otherVars
        \/ Generate(r) /\ UNCHANGED otherVars
        \/ FindConversation(r) /\ UNCHANGED otherVars
        \/ SaveConversation(r) /\ UNCHANGED otherVars
        \/ CreateConversation(r) /\ UNCHANGED otherVars
        \/ CreateUserMessage(r) /\ UNCHANGED otherVars
        \/ CreateModelMessage(r) /\ UNCHANGED otherVars
        \/ Close(r) /\ UNCHANGED otherVars

Spec == Init /\ [][Next]_vars

\* Every enabled step of a handler is eventually taken (the event loop runs
\* every settled promise's continuation).
FairSpec == Spec /\ WF_vars(Next)

\* One client keeping one thread: user u1 sends every ask with the latest
\* conversation id it was given (none before the first answer), every
\* collaborator answers and every store call succeeds.
ThreadEnv ==
    \A r \in Requests :
        /\ pc'[r] \notin {"FAILED", "REJECTED", "EMBEDDING_PENDING",
                          "GENERATING_PENDING"}
        /\ pc[r] = "IDLE" =>
              /\ req'[r].user = "u1"
              /\ req'[r].conversationId = Len(conversations)
        /\ pc[r] \in {"CREATE_USER_MESSAGE", "CREATE_MODEL_MESSAGE"} =>
              Len(messages') = Len(messages) + 1

ThreadNext == Next /\ ThreadEnv

ThreadSpec == Init /\ [][ThreadNext]_vars

\* Two asks served side by side, one by each handler: user u1 asks a short
\* question through handler 1 and a long one through handler 2, each with no
\* conversation id or the id of a conversation that exists; no embedding key
\* is configured, every collaborator answers, and the conversation store
\* answers every call (a message write may still fail, which askQuestion
\* swallows).
AskOf(r) == IF r = 1 THEN Str("q", 10, 0) ELSE Str("q", MaxQuestionLen + 1, 0)

ConcurrentEnv ==
    \A r \in Handlers :
        /\ pc'[r] \notin {"FAILED", "REJECTED", "EMBEDDING_PENDING",
                          "GENERATING_PENDING"}
        /\ pc[r] = "IDLE" /\ pc'[r] # "IDLE" =>
              /\ req'[r].user = "u1"
              /\ req'[r].question = AskOf(r)
              /\ req'[r].conversationId <= Len(conversations)

ConcurrentNext ==
    \E r \in Handlers :
        \/ Receive(r) /\ ConcurrentEnv /\ UNCHANGED otherVars
        \/ Embed(r) /\ ConcurrentEnv /\ UNCHANGED otherVars
        \/ Search(r) /\ ConcurrentEnv /\ UNCHANGED otherVars
        \/ Generate(r) /\ ConcurrentEnv /\ UNCHANGED otherVars
        \/ FindConversation(r) /\ ConcurrentEnv /\ UNCHANGED otherVars
        \/ SaveConversation(r) /\ ConcurrentEnv /\ UNCHANGED otherVars
        \/ CreateConversation(r) /\ ConcurrentEnv /\ UNCHANGED otherVars
        \/ CreateUserMessage(r) /\ ConcurrentEnv /\ UNCHANGED otherVars
        \/ CreateModelMessage(r) /\ ConcurrentEnv /\ UNCHANGED otherVars

ConcurrentInit == Init /\ voyageApiKey = ""

ConcurrentSpec == ConcurrentInit /\ [][ConcurrentNext]_vars

\* ===================================================== deleteConversation
\* DELETE /api/chat/conversations/:id arrives: up to the first await
DeleteReceive ==
    /\ dpc = "IDLE"
    /\ \E user \in Users \cup {NoUser}, id \in 1..MaxAsks :
          /\ dreq' = [user |-> user, id |-> id]
          /\ dpc' = IF user = NoUser THEN "UNAUTHORIZED" ELSE "FIND"
    /\ UNCHANGED <<conversations, messages>>

\* const conversation = await Conversation.findOne({ _id: id, user: req.user.id })
DeleteFind ==
    /\ dpc = "FIND"
    /\ \E ok \in BOOLEAN :
          dpc' = IF ~ok THEN "DELETE_FAILED"
                 ELSE IF FindOne(dreq.id, dreq.user) THEN "DELETE_MESSAGES"
                 ELSE "NOT_FOUND"
    /\ UNCHANGED <<dreq, conversations, messages>>

\* await Chat.deleteMany({ conversation: id })
DeleteMessages ==
    /\ dpc = "DELETE_MESSAGES"
    /\ \E ok \in BOOLEAN :
          IF ~ok
          THEN /\ dpc' = "DELETE_FAILED"
               /\ UNCHANGED messages
          ELSE /\ messages' = SelectSeq(messages,
                                  LAMBDA m : m.conversation # dreq.id)
               /\ dpc' = "DELETE_CONVERSATION"
    /\ UNCHANGED <<dreq, conversations>>

\* await conversation.deleteOne(), then the 200
DeleteOne ==
    /\ dpc = "DELETE_CONVERSATION"
    /\ \E ok \in BOOLEAN :
          IF ~ok
          THEN /\ dpc' = "DELETE_FAILED"
               /\ UNCHANGED conversations
          ELSE /\ conversations' = [conversations EXCEPT
                                       ![dreq.id].deleted = TRUE]
               /\ dpc' = "DELETED"
    /\ UNCHANGED <<dreq, messages>>

\* the response (401, 404, 500 or 200) has been sent
DeleteClose ==
    /\ dpc \in {"UNAUTHORIZED", "NOT_FOUND", "DELETE_FAILED", "DELETED"}
    /\ dpc' = "IDLE"
    /\ dreq' = [user |-> NoUser, id |-> 0]
    /\ UNCHANGED <<conversations, messages>>

\* The asks that run beside a deletion: one question, no embedding key, an
\* empty retrieval, one answer.  conversation.save() rejects when the
\* document is gone from the collection.
ConversationEnv ==
    \A r \in Requests :
        /\ req'[r].question \in {Undefined, Str("q", 10, 0)}
        /\ embedding'[r] = Null
        /\ relevantDocs'[r] = <<>>
        /\ searched'[r] = NoSearch \/ searched'[r].text = Returned(<<>>)
        /\ answer'[r] \in {Undefined, Str("answer", 150, 0)}
        /\ pc'[r] # "GENERATING_PENDING"
        /\ pc[r] = "SAVE_CONVERSATION" /\ conversations[conversationId[r]].deleted
              => pc'[r] = "FAILED"

restOfDelete == <<voyageApiKey, askVars, ingestVars, removeVars, callVars>>

\* askQuestion and deleteConversation, each at its own await, interleaved
ConversationNext ==
    \/ Next /\ ConversationEnv
    \/ DeleteReceive /\ UNCHANGED restOfDelete
    \/ DeleteFind /\ UNCHANGED restOfDelete
    \/ DeleteMessages /\ UNCHANGED restOfDelete
    \/ DeleteOne /\ UNCHANGED restOfDelete
    \/ DeleteClose /\ UNCHANGED restOfDelete

ConversationInit == Init /\ voyageApiKey = ""

ConversationSpec == ConversationInit /\ [][ConversationNext]_vars

\* ========================================================= uploadDocument
\* uploadDocument and processAndSaveDocument.  A document's text is its
\* length; for an upload's content, `lead` counts the characters the
\* normalizer removes (redundant whitespace, control characters).

\* cleanText(content): normalization only removes; it is idempotent
cleanText(content) == Str(content.src, content.len - content.lead, 0)

\* A piece of the normalized text: where it starts and how long it is
Slice(start, len) == [start |-> start, len |-> len]
NoText            == [start |-> -1, len |-> 0]
Whole(text)       == Slice(0, text.len)

\* chunks.length for a text of `len` characters: windows of `size` characters
\* that start every size - overlap characters
ChunkCount(len, size, overlap) ==
    IF len = 0 THEN 0
    ELSE IF len <= size THEN 1
    ELSE ((len - overlap) + (size - overlap) - 1) \div (size - overlap)

\* chunkText(text, size, overlap): chunk.text and the 0-based chunk.index
chunkText(text, size, overlap) ==
    [k \in 1..ChunkCount(text.len, size, overlap) |->
        LET start == (k - 1) * (size - overlap) IN
        [index |-> k - 1, text |-> Slice(start, Min(size, text.len - start))]]

\* needsChunking decided at the threshold as well
needsChunking_AtThreshold(cleaned) == cleaned.len >= ChunkThreshold

\* const needsChunking = cleanedContent.length > 2000
needsChunking(cleaned) == cleaned.len > ChunkThreshold

\* every document stored without its embedding
OrEmpty_Dropped(e) == Vector(0)

\* embedding || []
OrEmpty(e) == IF e = Null THEN Vector(0) ELSE e

\* A document of the collection.  chunkCount is 0 and parentDocumentId is 0
\* where the field is not set, chunkIndex is NoIndex; embeddingOf is the text
\* the stored embedding was computed from.
NoIndex == -1
Document(isChunk, chunkCount, parent, index, content, emb, input) ==
    [isChunk |-> isChunk, chunkCount |-> chunkCount, parentDocumentId |-> parent,
     chunkIndex |-> index, content |-> content, embedding |-> OrEmpty(emb),
     embeddingOf |-> IF OrEmpty(emb).dim > 0 THEN input ELSE NoText,
     deleted |-> FALSE]

Upload401 == [status |-> 401, success |-> FALSE, message |-> "Not authorized"]
Upload400 == [status |-> 400, success |-> FALSE,
              message |-> "Please provide title and content"]
Upload500(err) == [status |-> 500, success |-> FALSE,
                   message |-> "Error uploading document", error |-> err]
Upload201(id, chunksCreated) ==
    [status |-> 201, success |-> TRUE, id |-> id, chunksCreated |-> chunksCreated]

\* body.content: absent, empty, at the threshold, at the threshold once
\* normalized, one past it (3 chunks), and one window more (4 chunks)
UploadContents ==
    { Undefined, Str("doc", 0, 0), Str("doc", ChunkThreshold, 0),
      Str("doc", ChunkThreshold + 3, 3), Str("doc", ChunkThreshold + 1, 0),
      Str("doc", ChunkThreshold + ChunkSize - ChunkOverlap + 1, 0) }

UploadTitles == { Undefined, Str("title", 5, 0) }

\* What the embedding provider may reply to an ingestion call: as for a
\* question, or a vector of another model's dimensionality
UploadEmbeddingReplies ==
    EmbeddingReplies \cup { Body(4, Vector(EmbeddingDim \div 2)) }

\* the catch block of uploadDocument
UploadFail(err) ==
    /\ upc' = "FAILED"
    /\ uploadResponse' = Upload500(err)

\* POST /api/chat/upload/text arrives: uploadDocument and
\* processAndSaveDocument up to the first await
UploadReceive ==
    /\ upc = "IDLE"
    /\ \E user \in {"u1", NoUser}, title \in UploadTitles,
          content \in UploadContents :
          /\ ureq' = [user |-> user, title |-> title, content |-> content]
          /\ IF user = NoUser
             THEN /\ upc' = "REJECTED"
                  /\ uploadResponse' = Upload401
                  /\ UNCHANGED <<cleanedContent, chunks, embeddingCalls>>
             ELSE IF ~Truthy(title) \/ ~Truthy(content)
             THEN /\ upc' = "REJECTED"
                  /\ uploadResponse' = Upload400
                  /\ UNCHANGED <<cleanedContent, chunks, embeddingCalls>>
             ELSE /\ cleanedContent' = cleanText(content)
                  /\ chunks' = IF needsChunking(cleanText(content))
                               THEN chunkText(cleanText(content), ChunkSize,
                                              ChunkOverlap)
                               ELSE <<>>
                  /\ upc' = IF needsChunking(cleanText(content))
                            THEN "CREATE_PARENT" ELSE "EMBED_DOCUMENT"
                  /\ embeddingCalls' = IF needsChunking(cleanText(content))
                                       THEN <<>>
                                       ELSE <<Whole(cleanText(content))>>
                  /\ UNCHANGED uploadResponse
    /\ UNCHANGED <<documents, parentDoc, chunkPromises, docEmbedding>>

\* One chunk's async function: awaiting generateEmbedding, then awaiting
\* DocumentModel.create, then settled
Promise(state, emb) == [state |-> state, embedding |-> emb]

\* generateEmbedding called with the whole document for every chunk
EmbeddingInput_WholeDocument(i) == Whole(cleanedContent)

\* the text generateEmbedding is called with for chunk i
EmbeddingInput(i) == chunks[i].text

\* const parentDoc = await DocumentModel.create({..., chunkCount: chunks.length}),
\* then chunks.map(async ...) runs every callback up to its first await
CreateParent ==
    /\ upc = "CREATE_PARENT"
    /\ \E ok \in BOOLEAN :
          IF ~ok
          THEN /\ UploadFail(StoreError)
               /\ UNCHANGED <<documents, parentDoc, chunkPromises,
                               embeddingCalls>>
          ELSE /\ documents' = Append(documents,
                      Document(FALSE, Len(chunks), 0, NoIndex,
                               Whole(cleanedContent), Vector(0), NoText))
               /\ parentDoc' = Len(documents) + 1
               /\ chunkPromises' = [i \in 1..Len(chunks) |->
                                       Promise("EMBEDDING", Null)]
               /\ embeddingCalls' = [i \in 1..Len(chunks) |->
                                        EmbeddingInput(i)]
               /\ upc' = "JOIN"
               /\ UNCHANGED uploadResponse
    /\ UNCHANGED <<ureq, cleanedContent, chunks, docEmbedding>>

\* const embedding = await ragService.generateEmbedding(chunk.text)
ChunkEmbed(i) ==
    /\ i \in 1..Len(chunkPromises)
    /\ chunkPromises[i].state = "EMBEDDING"
    /\ \E reply \in UploadEmbeddingReplies :
          LET g == generateEmbedding(voyageApiKey, reply) IN
          chunkPromises' = [chunkPromises EXCEPT ![i] =
              IF g.pending THEN Promise("EMBEDDING_PENDING", Null)
              ELSE IF g.threw THEN Promise("REJECTED", Null)
              ELSE Promise("CREATING", g.value)]
    /\ UNCHANGED <<documents, upc, ureq, cleanedContent, chunks, parentDoc,
                   embeddingCalls, docEmbedding, uploadResponse>>

\* return DocumentModel.create({..., embedding: embedding || [], isChunk: true, ...})
ChunkCreate(i) ==
    /\ i \in 1..Len(chunkPromises)
    /\ chunkPromises[i].state = "CREATING"
    /\ \E ok \in BOOLEAN :
          IF ~ok
          THEN /\ chunkPromises' = [chunkPromises EXCEPT ![i] =
                                       Promise("REJECTED", Null)]
               /\ UNCHANGED documents
          ELSE /\ documents' = Append(documents,
                      Document(TRUE, Len(chunks), parentDoc, chunks[i].index,
                               chunks[i].text, chunkPromises[i].embedding,
                               embeddingCalls[i]))
               /\ chunkPromises' = [chunkPromises EXCEPT ![i] =
                                       Promise("FULFILLED", Null)]
    /\ UNCHANGED <<upc, ureq, cleanedContent, chunks, parentDoc,
                   embeddingCalls, docEmbedding, uploadResponse>>

Rejected  == \E i \in 1..Len(chunkPromises) : chunkPromises[i].state = "REJECTED"
Fulfilled == \A i \in 1..Len(chunkPromises) : chunkPromises[i].state = "FULFILLED"

\* await Promise.all(chunkPromises) settles: rejected as soon as one promise
\* is, fulfilled once all are; then the 201 or the catch block
Join ==
    /\ upc = "JOIN"
    /\ Rejected \/ Fulfilled
    /\ IF Rejected THEN UploadFail(StoreError)
       ELSE /\ upc' = "INDEXED"
            /\ uploadResponse' = Upload201(parentDoc, Len(chunks))
    /\ UNCHANGED <<documents, ureq, cleanedContent, chunks, parentDoc,
                   chunkPromises, embeddingCalls, docEmbedding>>

\* const embedding = await ragService.generateEmbedding(cleanedContent)
EmbedDocument ==
    /\ upc = "EMBED_DOCUMENT"
    /\ \E reply \in UploadEmbeddingReplies :
          LET g == generateEmbedding(voyageApiKey, reply) IN
          IF g.pending
          THEN /\ upc' = "EMBED_DOCUMENT_PENDING"
               /\ UNCHANGED <<docEmbedding, uploadResponse>>
          ELSE IF g.threw
          THEN /\ UploadFail(EmbeddingError)
               /\ UNCHANGED docEmbedding
          ELSE /\ docEmbedding' = g.value
               /\ upc' = "CREATE_DOCUMENT"
               /\ UNCHANGED uploadResponse
    /\ UNCHANGED <<documents, ureq, cleanedContent, chunks, parentDoc,
                   chunkPromises, embeddingCalls>>

\* const document = await DocumentModel.create({..., embedding: embedding || [],
\* isChunk: false}), then the 201
CreateDocument ==
    /\ upc = "CREATE_DOCUMENT"
    /\ \E ok \in BOOLEAN :
          IF ~ok
          THEN /\ UploadFail(StoreError)
               /\ UNCHANGED documents
          ELSE /\ documents' = Append(documents,
                      Document(FALSE, 0, 0, NoIndex, Whole(cleanedContent),
                               docEmbedding, embeddingCalls[1]))
               /\ upc' = "INDEXED"
               /\ uploadResponse' = Upload201(Len(documents) + 1, 0)
    /\ docEmbedding' = Null
    /\ UNCHANGED <<ureq, cleanedContent, chunks, parentDoc, chunkPromises,
                   embeddingCalls>>

\* One upload on an empty collection; no ask and no deletion is in flight.
restOfIngest == <<voyageApiKey, askVars, chatVars, deleteVars, removeVars,
                  callVars>>

IngestNext ==
    \/ UploadReceive /\ UNCHANGED restOfIngest
    \/ CreateParent /\ UNCHANGED restOfIngest
    \/ \E i \in 1..Len(chunkPromises) : ChunkEmbed(i) /\ UNCHANGED restOfIngest
    \/ \E i \in 1..Len(chunkPromises) : ChunkCreate(i) /\ UNCHANGED restOfIngest
    \/ Join /\ UNCHANGED restOfIngest
    \/ EmbedDocument /\ UNCHANGED restOfIngest
    \/ CreateDocument /\ UNCHANGED restOfIngest

IngestSpec == Init /\ [][IngestNext]_vars

\* =========================================================== getDocuments
\* isChunk: includeChunks === 'true' ? undefined : false
IsChunkCondition(includeChunks) ==
    IF includeChunks = "true" THEN "undefined" ELSE "false"

\* a query that puts no condition on isChunk
MatchesIsChunk_Always(cond, d, strip) == TRUE

\* Whether a document meets the isChunk condition of the query. A condition
\* of undefined is either stripped from the filter (every document matches)
\* or sent as null (no document matches, isChunk being set on all of them).
MatchesIsChunk(cond, d, strip) ==
    IF cond = "false" THEN ~d.isChunk ELSE strip

RECURSIVE Descending(_)
\* .sort({ createdAt: -1 }): the ids of a set, the latest first
Descending(S) ==
    IF S = {} THEN <<>>
    ELSE LET latest == CHOOSE id \in S : \A other \in S : other <= id
         IN  <<latest>> \o Descending(S \ {latest})

\* GET /api/chat/documents: `matching` stands for the documents that meet
\* the category and $text conditions of the request
getDocuments(includeChunks, matching, page, limit, strip) ==
    LET cond   == IsChunkCondition(includeChunks)
        found  == { id \in matching :
                      /\ id \in 1..Len(documents)
                      /\ ~documents[id].deleted
                      /\ MatchesIsChunk(cond, documents[id], strip) }
        sorted == Descending(found)
        skip   == (page - 1) * limit
    IN  [ documents |-> SubSeq(sorted, skip + 1, Min(skip + limit, Len(sorted))),
          total     |-> Cardinality(found),
          page      |-> page ]

\* ========================================================= deleteDocument
\* req.params.id: an id the collection holds or has held, or an unknown one
DocumentIds == 1..(Len(documents) + 1)

\* DocumentModel.findById(id) finds a document
FindById(id) == id \in 1..Len(documents) /\ ~documents[id].deleted

\* !document.isChunk && document.chunkCount && document.chunkCount > 0
IsParent(d) == ~d.isChunk /\ d.chunkCount # 0 /\ d.chunkCount > 0

\* the filter { parentDocumentId: id } of deleteMany
ChunkFilter(id, d) == d.parentDocumentId = id

\* DELETE /api/chat/documents/:id arrives: deleteDocument up to its first await
RemoveReceive ==
    /\ xpc = "IDLE"
    /\ \E user \in {"u1", NoUser}, id \in DocumentIds :
          /\ xreq' = [user |-> user, id |-> id]
          /\ xpc' = IF user = NoUser THEN "UNAUTHORIZED" ELSE "FIND"
    /\ UNCHANGED documents

\* const document = await DocumentModel.findById(id), then the 404 or the
\* test for a parent document
RemoveFind ==
    /\ xpc = "FIND"
    /\ \E ok \in BOOLEAN :
          xpc' = IF ~ok THEN "REMOVE_FAILED"
                 ELSE IF ~FindById(xreq.id) THEN "NOT_FOUND"
                 ELSE IF IsParent(documents[xreq.id]) THEN "DELETE_CHUNKS"
                 ELSE "DELETE_DOCUMENT"
    /\ UNCHANGED <<xreq, documents>>

\* await DocumentModel.deleteMany({ parentDocumentId: id })
RemoveChunks ==
    /\ xpc = "DELETE_CHUNKS"
    /\ \E ok \in BOOLEAN :
          IF ~ok
          THEN /\ xpc' = "REMOVE_FAILED"
               /\ UNCHANGED documents
          ELSE /\ documents' = [i \in 1..Len(documents) |->
                      IF ChunkFilter(xreq.id, documents[i])
                      THEN [documents[i] EXCEPT !.deleted = TRUE]
                      ELSE documents[i]]
               /\ xpc' = "DELETE_DOCUMENT"
    /\ UNCHANGED xreq

\* await document.deleteOne(), then the 200
RemoveDocument ==
    /\ xpc = "DELETE_DOCUMENT"
    /\ \E ok \in BOOLEAN :
          IF ~ok
          THEN /\ xpc' = "REMOVE_FAILED"
               /\ UNCHANGED documents
          ELSE /\ documents' = [documents EXCEPT ![xreq.id].deleted = TRUE]
               /\ xpc' = "REMOVED"
    /\ UNCHANGED xreq

\* the response (401, 404, 500 or 200) has been sent
RemoveClose ==
    /\ xpc \in {"UNAUTHORIZED", "NOT_FOUND", "REMOVE_FAILED", "REMOVED"}
    /\ xpc' = "IDLE"
    /\ xreq' = [user |-> NoUser, id |-> 0]
    /\ UNCHANGED documents

\* every callback of the upload has settled and its response is sent: the
\* handler's frame is gone
Settled ==
    \A i \in 1..Len(chunkPromises) :
        chunkPromises[i].state \in {"FULFILLED", "REJECTED"}

UploadClose ==
    /\ upc \in {"INDEXED", "FAILED", "REJECTED"}
    /\ Settled
    /\ upc' = "IDLE"
    /\ ureq' = [user |-> NoUser, title |-> Undefined, content |-> Undefined]
    /\ cleanedContent' = Undefined
    /\ chunks' = <<>>
    /\ parentDoc' = 0
    /\ chunkPromises' = <<>>
    /\ embeddingCalls' = <<>>
    /\ docEmbedding' = Null
    /\ uploadResponse' = NoResponse
    /\ UNCHANGED documents

\* documents uploaded so far (chunks apart), deleted or not
Uploaded == Cardinality({ id \in 1..Len(documents) : ~documents[id].isChunk })

\* Uploads and deletions one after the other on a collection at rest: every
\* upload is accepted, split in three or not split, and stored in full, its
\* chunks in the order of their index; no embedding key is configured.
DocumentEnv ==
    /\ ureq'.content \in { Undefined, Str("doc", ChunkThreshold, 0),
                           Str("doc", ChunkThreshold + 1, 0) }
    /\ upc' \notin {"FAILED", "REJECTED"}
    /\ \A i \in 1..Len(chunkPromises') : chunkPromises'[i].state # "REJECTED"

\* the schedule in which the callbacks of the chunks run one after the other
InOrder(i) == \A j \in 1..(i - 1) : chunkPromises[j].state = "FULFILLED"

restOfUpload == <<voyageApiKey, askVars, chatVars, deleteVars, removeVars,
                  callVars>>
restOfRemove == <<voyageApiKey, askVars, chatVars, deleteVars, upc, ureq,
                  cleanedContent, chunks, parentDoc, chunkPromises,
                  embeddingCalls, docEmbedding, uploadResponse, callVars>>

DocumentNext ==
    \/ /\ xpc = "IDLE" /\ Uploaded < MaxUploads
       /\ UploadReceive /\ DocumentEnv /\ UNCHANGED restOfUpload
    \/ CreateParent /\ DocumentEnv /\ UNCHANGED restOfUpload
    \/ \E i \in 1..Len(chunkPromises) :
           InOrder(i) /\ ChunkEmbed(i) /\ DocumentEnv /\ UNCHANGED restOfUpload
    \/ \E i \in 1..Len(chunkPromises) :
           InOrder(i) /\ ChunkCreate(i) /\ DocumentEnv /\ UNCHANGED restOfUpload
    \/ Join /\ DocumentEnv /\ UNCHANGED restOfUpload
    \/ EmbedDocument /\ DocumentEnv /\ UNCHANGED restOfUpload
    \/ CreateDocument /\ DocumentEnv /\ UNCHANGED restOfUpload
    \/ UploadClose /\ UNCHANGED restOfUpload
    \/ upc = "IDLE" /\ RemoveReceive /\ UNCHANGED restOfRemove
    \/ RemoveFind /\ UNCHANGED restOfRemove
    \/ RemoveChunks /\ UNCHANGED restOfRemove
    \/ RemoveDocument /\ UNCHANGED restOfRemove
    \/ RemoveClose /\ UNCHANGED restOfRemove

DocumentInit == Init /\ voyageApiKey = ""

DocumentSpec == DocumentInit /\ [][DocumentNext]_vars

\* One upload that is split in three and stored in full, and deletions that
\* are served while it runs; no embedding key is configured.
RaceEnv ==
    /\ ureq'.content \in { Undefined, Str("doc", ChunkThreshold + 1, 0) }
    /\ upc' \notin {"FAILED", "REJECTED"}
    /\ \A i \in 1..Len(chunkPromises') : chunkPromises'[i].state # "REJECTED"

RaceNext ==
    \/ UploadReceive /\ RaceEnv /\ UNCHANGED restOfUpload
    \/ CreateParent /\ RaceEnv /\ UNCHANGED restOfUpload
    \/ \E i \in 1..Len(chunkPromises) :
           ChunkEmbed(i) /\ RaceEnv /\ UNCHANGED restOfUpload
    \/ \E i \in 1..Len(chunkPromises) :
           ChunkCreate(i) /\ RaceEnv /\ UNCHANGED restOfUpload
    \/ Join /\ RaceEnv /\ UNCHANGED restOfUpload
    \/ RemoveReceive /\ UNCHANGED restOfRemove
    \/ RemoveFind /\ UNCHANGED restOfRemove
    \/ RemoveChunks /\ UNCHANGED restOfRemove
    \/ RemoveDocument /\ UNCHANGED restOfRemove
    \/ RemoveClose /\ UNCHANGED restOfRemove

RaceSpec == DocumentInit /\ [][RaceNext]_vars

\* ================================================ calls of generateAnswer
\* Context documents: a similarity that is absent, zero or positive; a body
\* shorter than the excerpt budget, of its size, and longer.
ContextDocs ==
    { ContextDoc(title, "safety", similarity, Str("body", len, 0)) :
        title \in {"t1", "t2"},
        similarity \in {NoSimilarity, Similarity(0), Similarity(875)},
        len \in {ExcerptBudget \div 2, ExcerptBudget, ExcerptBudget + 1} }

Contexts == {<<>>} \cup { <<d>> : d \in ContextDocs }
                 \cup { <<d, e>> : d \in ContextDocs, e \in ContextDocs }

restOfCall == <<voyageApiKey, askVars, chatVars, deleteVars, ingestVars,
                removeVars>>

\* generateAnswer(question, context) is called
RenderCall ==
    /\ call = NoCall
    /\ \E ctx \in Contexts :
          call' = [kind |-> "generateAnswer", question |-> Str("q", 10, 0),
                   context |-> ctx]
    /\ returned' = NoCall
    /\ UNCHANGED restOfCall

\* ... builds its prompt and hands it to the provider
RenderPrompt ==
    /\ call.kind = "generateAnswer"
    /\ returned = NoCall
    /\ returned' = [kind |-> "prompt",
                    prompt |-> Prompt(call.question, call.context)]
    /\ UNCHANGED <<call, restOfCall>>

\* ... and returns
RenderReturn ==
    /\ call.kind = "generateAnswer"
    /\ returned.kind = "prompt"
    /\ call' = NoCall
    /\ returned' = [kind |-> "answer"]
    /\ UNCHANGED restOfCall

RenderNext == RenderCall \/ RenderPrompt \/ RenderReturn

RenderSpec == Init /\ [][RenderNext]_vars

\* =============================================== calls of searchDocuments
\* the limit argument: given, or left to its default
LimitGiven(n) == [given |-> TRUE, value |-> n]
LimitOmitted  == [given |-> FALSE]
Limits == { LimitGiven(n) : n \in 0..(DefaultLimit + 1) } \cup {LimitOmitted}

\* limit: number = 3
EffectiveLimit(limit) == IF limit.given THEN limit.value ELSE DefaultLimit

\* the documents of the index in the order of their match with the query:
\* by similarity for the vector index, by text score for the text index
VectorRanking == <<Doc("d2", TRUE), Doc("d1", TRUE), Doc("d3", TRUE),
                   Doc("d5", TRUE), Doc("d6", TRUE)>>
TextRanking   == <<Doc("d1", FALSE), Doc("d4", FALSE), Doc("d2", FALSE),
                   Doc("d3", FALSE)>>

Take(docs, n) == SubSeq(docs, 1, Min(n, Len(docs)))

\* DocumentModel.vectorSearch(embedding, limit) on an index with `matches`
\* matching documents: up to `limit` of them, the best first
vectorSearch(matches, limit) == Returned(Take(Take(VectorRanking, matches), limit))

\* DocumentModel.findSimilar(query, limit), likewise
findSimilar(matches, limit) == Returned(Take(Take(TextRanking, matches), limit))

\* searchDocuments(query, embedding, limit) is called; what the two searches
\* of the store would do with that limit is drawn here
SearchCall ==
    /\ call = NoCall
    /\ \E emb \in {Null, Vector(EmbeddingDim)}, limit \in Limits,
          vm \in 0..Len(VectorRanking), tm \in 0..Len(TextRanking),
          vthrows \in BOOLEAN, tthrows \in BOOLEAN :
          call' = [kind |-> "searchDocuments", embedding |-> emb,
                   limit |-> limit, vectorMatches |-> vm, textMatches |-> tm,
                   vector |-> IF vthrows THEN Threw
                              ELSE vectorSearch(vm, EffectiveLimit(limit)),
                   text |-> IF tthrows THEN Threw
                            ELSE findSimilar(tm, EffectiveLimit(limit))]
    /\ returned' = NoCall
    /\ UNCHANGED restOfCall

\* ... and returns its results
SearchReturn ==
    /\ call.kind = "searchDocuments"
    /\ returned = NoCall
    /\ LET s == searchDocuments(call.embedding, call.vector, call.text) IN
          returned' = [kind |-> "results", results |-> s.results,
                       vectorCalled |-> s.vectorCalled,
                       textCalled |-> s.textCalled]
    /\ UNCHANGED <<call, restOfCall>>

\* the caller has taken the results
SearchDone ==
    /\ call.kind = "searchDocuments"
    /\ returned.kind = "results"
    /\ call' = NoCall
    /\ returned' = [kind |-> "taken"]
    /\ UNCHANGED restOfCall

SearchNext == SearchCall \/ SearchReturn \/ SearchDone

SearchSpec == Init /\ [][SearchNext]_vars

\* ============================================================== retrieval
TextCalled(s)   == s.text # NotCalled
VectorCalled(s) == s.vector # NotCalled
NoEmbedding(e)  == e = Null \/ (e.kind = "vector" /\ e.dim = 0)
Unscored(ds)    == \A i \in 1..Len(ds) : ~ds[i].scored
Scored(ds)      == \A i \in 1..Len(ds) : ds[i].scored

\* C1: searchDocuments calls the text search exactly when the embedding is
\* null or empty, or the vector search threw, or the vector search returned
\* no result; what it then returns is what the text search returned; and
\* with a failed (null) embedding the vector search is not called at all.
C1_TextSearchFallback ==
    \A r \in Requests :
        LET s == searched[r] IN
        s.called =>
            /\ TextCalled(s) <=>
                   \/ NoEmbedding(s.embedding)
                   \/ s.vector = Threw
                   \/ s.vector = Returned(<<>>)
            /\ (TextCalled(s) /\ ~s.text.threw) =>
                   (~s.threw /\ s.results = s.text.docs)
            /\ NoEmbedding(s.embedding) => ~VectorCalled(s)

C1_Witness ==
    \E r \in Requests :
        /\ searched[r].called
        /\ searched[r].embedding = Null
        /\ searched[r].vector = NotCalled
        /\ searched[r].text = Returned(<<Doc("d1", FALSE), Doc("d4", FALSE)>>)
        /\ relevantDocs[r] = <<Doc("d1", FALSE), Doc("d4", FALSE)>>

\* C2: the fallback is strict: what searchDocuments returns is the output
\* of one path only; a non-empty vector result is returned as it is, without
\* a text search; no returned list holds results of both paths.
C2_StrictFallback ==
    \A r \in Requests :
        LET s == searched[r] IN
        s.called =>
            /\ (VectorCalled(s) /\ ~s.vector.threw /\ Len(s.vector.docs) > 0) =>
                   (s.results = s.vector.docs /\ ~TextCalled(s))
            /\ \/ VectorCalled(s) /\ s.results = s.vector.docs
               \/ TextCalled(s) /\ s.results = s.text.docs
            /\ Scored(s.results) \/ Unscored(s.results)
            /\ Scored(relevantDocs[r]) \/ Unscored(relevantDocs[r])

C2_Witness ==
    \E r \in Requests :
        /\ searched[r].called
        /\ VectorCalled(searched[r])
        /\ Len(searched[r].vector.docs) = DefaultLimit
        /\ relevantDocs[r] = searched[r].vector.docs
        /\ calls[r].text = 0

\* C3: searchDocuments never raises: whatever the two searches do, it returns
\* a list and the request goes on to generation; when both searches throw,
\* the list is empty.
C3_SearchNeverRaises ==
    \A r \in Requests :
        LET s == searched[r] IN
        s.called =>
            /\ ~s.threw
            /\ pc[r] = "GENERATING"
            /\ relevantDocs[r] = s.results
            /\ (s.vector = Threw /\ s.text = Threw) => s.results = <<>>
            /\ (~VectorCalled(s) /\ s.text = Threw) => s.results = <<>>

C3_Witness ==
    \E r \in Requests :
        /\ searched[r].called
        /\ searched[r].vector = Threw
        /\ searched[r].text = Threw
        /\ relevantDocs[r] = <<>>
        /\ pc[r] = "GENERATING"

\* ============================================================== embedding
\* a provider reply that carries no embedding
FailedReply(reply) ==
    \/ reply.kind \in {"NetworkError", "HttpError"}
    \/ reply.kind = "Body" /\ reply.depth < 4

\* C10: generateEmbedding never throws into its caller: on a missing key, an
\* HTTP error, a network error or a malformed body it returns null and the
\* request goes on to retrieval; with a missing key the provider is not called.
C10_EmbeddingNeverThrows ==
    \A r \in Requests :
        /\ response[r].status = 500 => response[r].error # EmbeddingError
        /\ (pc[r] = "RETRIEVING" /\ FailedReply(embedReply[r])) =>
               embedding[r] = Null
        /\ voyageApiKey = "" =>
               /\ calls[r].embed = 0
               /\ embedReply[r] = NoCall
               /\ embedding[r] = Null
               /\ pc[r] # "EMBEDDING_PENDING"

C10_Witness ==
    \E r \in Requests :
        /\ pc[r] = "RETRIEVING"
        /\ embedReply[r] = Body(2, Null)
        /\ calls[r].embed = 1
        /\ embedding[r] = Null

\* ============================================================ ask pipeline
\* the handler is past the embedding stage
PastEmbedding(r) ==
    pc[r] \notin {"IDLE", "REJECTED", "EMBEDDING", "EMBEDDING_PENDING"}

\* C4: a request whose embedding failed (missing key, HTTP error, network
\* error, malformed body) goes on with text-only retrieval and generation:
\* the embedding failure never makes the request fail, an error response of
\* such a request carries the error of the generation or of the conversation
\* store, and the completed request carries an answer.
C4_EmbeddingDownStillAnswers ==
    \A r \in Requests :
        (req[r].user \in Users /\ embedding[r] = Null /\ pc[r] # "IDLE") =>
            /\ calls[r].vector = 0
            /\ pc[r] = "FAILED" =>
                   response[r].error \in {GenerationFailed, StoreError}
            /\ pc[r] = "COMPLETED" =>
                   /\ response[r].status = 200
                   /\ response[r].answer.defined
                   /\ response[r].answer.len > 0
                   /\ Unscored(response[r].sources)
                   /\ calls[r].text = 1
                   /\ calls[r].generate = 1

C4_Witness ==
    \E r \in Requests :
        /\ pc[r] = "COMPLETED"
        /\ voyageApiKey # ""
        /\ calls[r].embed = 1
        /\ embedding[r] = Null
        /\ response[r].status = 200
        /\ response[r].answer = Str("answer", 20, 0)
        /\ response[r].sources = <<Doc("d1", FALSE), Doc("d4", FALSE)>>

\* the generation of request r was called and gave no answer
GenerationFailedFor(r) ==
    calls[r].generate > 0 /\ ~answer[r].defined /\ pc[r] \in Terminal

\* C5: when generation fails, the request is answered with a success response
\* that carries a labelled degraded answer, not with an error.
C5_DegradedAnswerOnGenerationFailure ==
    \A r \in Requests :
        GenerationFailedFor(r) =>
            /\ response[r].status = 200
            /\ response[r].answer.defined

\* C6: once the answer is generated, a failure of any conversation or message
\* write does not fail the request: the response is a success carrying the
\* answer.
C6_PersistenceBestEffort ==
    \A r \in Requests :
        (answer[r].defined /\ pc[r] \in Terminal) =>
            /\ response[r].status = 200
            /\ response[r].answer = answer[r]

InvalidQuestion(q) ==
    ~Truthy(q) \/ Trim(q).len = 0 \/ q.len > MaxQuestionLen

\* C7: a question that is empty, blank or longer than the maximum length is
\* rejected, and nothing is called or written for it.
C7_InvalidQuestionRejected ==
    \A r \in Requests :
        (pc[r] # "IDLE" /\ req[r].user \in Users
                        /\ InvalidQuestion(req[r].question)) =>
            /\ pc[r] = "REJECTED"
            /\ response[r].status = 400
            /\ calls[r] = NoCalls

PersistStages ==
    {"SAVE_CONVERSATION", "CREATE_CONVERSATION", "CREATE_USER_MESSAGE",
     "CREATE_MODEL_MESSAGE"}

StagesInOrder(r) ==
    /\ calls[r].embed <= 1 /\ calls[r].generate <= 1
    /\ (calls[r].vector + calls[r].text > 0) => PastEmbedding(r)
    /\ searched[r].called =>
           (searched[r].embedding = embedding[r] /\ calls[r].generate = 0)
    /\ calls[r].generate = 1 =>
           /\ calls[r].vector + calls[r].text >= 1
           /\ context[r] = relevantDocs[r]
    /\ calls[r].store > 0 => (calls[r].generate = 1 /\ answer[r].defined)
    /\ response[r].status = 200 =>
           /\ calls[r].store > 0
           /\ response[r].answer = answer[r]
           /\ response[r].sources = relevantDocs[r]
    /\ GenerationFailedFor(r) => calls[r].store = 0

\* C8: the stages of a request run in the order embed, retrieve, generate,
\* persist, respond: retrieval gets the embedding stage's output, generation
\* is called once with the documents retrieval returned, and the conversation
\* store is written only by a request whose generation has returned an
\* answer, so a request whose generation fails writes nothing.
C8_StagesStrictlySequential ==
    /\ [](\A r \in Requests : StagesInOrder(r))
    /\ [][ (conversations' # conversations \/ messages' # messages) =>
              \E r \in Requests :
                  /\ pc[r] \in PersistStages
                  /\ answer[r].defined
                  /\ calls[r].generate = 1 ]_vars

C8_Witness ==
    \E r \in Requests :
        /\ pc[r] = "COMPLETED"
        /\ calls[r] = [embed |-> 1, vector |-> 1, text |-> 0, generate |-> 1,
                       store |-> 3]
        /\ context[r] = <<Doc("d2", TRUE), Doc("d1", TRUE), Doc("d3", TRUE)>>
        /\ Len(messages) = 2

\* C9: every request that was received eventually ends, whatever the
\* providers do.
C9_EveryAskTerminates ==
    \A r \in Requests :
        (pc[r] \notin {"IDLE"} \cup Terminal) ~> (pc[r] \in Terminal)

\* ================================================ embedding dimensionality
Stored == { id \in 1..Len(documents) : ~documents[id].deleted }

\* C11: a vector whose length is not the fixed dimensionality is treated as
\* a failed embedding: every stored document or chunk has an empty
\* embedding or one of EmbeddingDim components.
C11_DimensionMismatchRejected ==
    \A id \in Stored : documents[id].embedding.dim \in {0, EmbeddingDim}

\* =========================================================== conversations
LastMessage == messages[Len(messages)]
Appended    == Len(messages') = Len(messages) + 1
Created     == Len(conversations') = Len(conversations) + 1

\* the conversations a step leaves as they were
Untouched(ids) == \A c \in ids : conversations'[c] = conversations[c]

\* C12: an ask whose conversationId names no conversation of the caller
\* (unknown id, or another user's conversation) goes on to create a
\* conversation: the lookup changes nothing, the creation adds exactly one
\* conversation owned by the caller and makes its id the request's
\* conversationId, every message the request stores carries that id and the
\* caller, the 200 response returns it, and no step of the request changes
\* a conversation of another user or appends a message to one.
C12_Miss(r) ==
    /\ pc[r] = "FIND_CONVERSATION"
    /\ ~FindOne(conversationId[r], req[r].user)

C12_Step(r) ==
    /\ C12_Miss(r) =>
          /\ pc'[r] \in {"CREATE_CONVERSATION", "FAILED"}
          /\ UNCHANGED <<conversations, messages>>
    /\ pc[r] = "CREATE_CONVERSATION" /\ pc'[r] # "FAILED" =>
          /\ Created
          /\ Untouched(1..Len(conversations))
          /\ conversations'[Len(conversations')].user = req[r].user
          /\ conversationId'[r] = Len(conversations')
          /\ UNCHANGED messages
    /\ messages' # messages =>
          /\ Appended
          /\ \A i \in 1..Len(messages) : messages'[i] = messages[i]
          /\ messages'[Len(messages')].conversation = conversationId[r]
          /\ messages'[Len(messages')].user = req[r].user
    /\ Untouched({ c \in 1..Len(conversations) :
                     conversations[c].user # req[r].user })

C12_Returned(r) ==
    pc[r] = "COMPLETED" =>
        /\ response[r].conversationId \in 1..Len(conversations)
        /\ response[r].conversationId = conversationId[r]
        /\ conversations[conversationId[r]].user = req[r].user

C12_MissCreatesConversation ==
    /\ [](\A r \in Requests : C12_Returned(r))
    /\ [][\A r \in Requests : C12_Step(r)]_vars

\* the second ask named the first user's conversation: it completed with a
\* conversation of its own that holds both of its messages
C12_Witness ==
    \E r \in Requests :
        /\ pc[r] = "COMPLETED"
        /\ req[r].conversationId \in 1..Len(conversations)
        /\ conversations[req[r].conversationId].user # req[r].user
        /\ response[r].conversationId # req[r].conversationId
        /\ Len(messages) >= 2
        /\ LastMessage = Message(r, "model", answer[r])
        /\ messages[Len(messages) - 1] = Message(r, "user", req[r].question)
        /\ LastMessage.conversation = response[r].conversationId

\* C13: in a thread (the first ask omits conversationId, each later ask
\* of the same user sends the id it was returned) there is never more than
\* one conversation; a request that found its conversation creates none;
\* and when the k-th ask has completed, the response carries the thread's
\* id and the store holds that one conversation with the 2k messages of
\* the k turns, in order: question, answer, question, answer, ...
C13_Turns ==
    \A r \in Requests :
        pc[r] = "COMPLETED" =>
            /\ Len(conversations) = 1
            /\ response[r].conversationId = 1
            /\ Len(messages) = 2 * asks
            /\ \A i \in 1..Len(messages) :
                   /\ messages[i].conversation = 1
                   /\ messages[i].user = conversations[1].user
                   /\ messages[i].role = IF i % 2 = 1 THEN "user" ELSE "model"
            /\ LastMessage = Message(r, "model", answer[r])
            /\ messages[Len(messages) - 1] = Message(r, "user", req[r].question)

C13_OneConversationPerThread ==
    /\ Len(conversations) <= 1
    /\ C13_Turns
    /\ \A r \in Requests :
           /\ pc[r] = "CREATE_CONVERSATION" => req[r].conversationId = 0
           /\ pc[r] = "SAVE_CONVERSATION" =>
                  conversationId[r] = req[r].conversationId

\* the last ask of the thread has completed
C13_Witness ==
    \E r \in Requests :
        /\ pc[r] = "COMPLETED"
        /\ asks = MaxAsks
        /\ req[r].conversationId = 1
        /\ Len(conversations) = 1
        /\ Len(messages) = 2 * MaxAsks

\* the messages stored for conversation c, oldest first
MessagesOf(c) == SelectSeq(messages, LAMBDA m : m.conversation = c)

\* C14: in every state, the lastMessage of every conversation that has a
\* stored message is the first LastMessageLen characters of the text of the
\* message stored last for it.
C14_LastMessageIsLatest ==
    \A c \in 1..Len(conversations) :
        LET ms == MessagesOf(c) IN
        ~conversations[c].deleted /\ Len(ms) > 0 =>
            conversations[c].lastMessage =
                Substring(ms[Len(ms)].text, LastMessageLen)

\* C15: in every state, every stored message names a conversation that is
\* in the store and belongs to the message's user.
C15_MessagesBelong ==
    \A i \in 1..Len(messages) :
        /\ messages[i].conversation \in 1..Len(conversations)
        /\ ~conversations[messages[i].conversation].deleted
        /\ conversations[messages[i].conversation].user = messages[i].user

\* ============================================================== ingestion
Accepted     == cleanedContent.defined
ChunksStored == { id \in Stored : documents[id].isChunk }
SinglePath   == {"EMBED_DOCUMENT", "EMBED_DOCUMENT_PENDING", "CREATE_DOCUMENT"}
ChunkPath    == {"CREATE_PARENT", "JOIN"}

\* C16: an accepted upload is split exactly when its normalized length is
\* greater than ChunkThreshold, into the chunks of size ChunkSize and overlap
\* ChunkOverlap.  When it is not split (normalized length up to and
\* including ChunkThreshold) generateEmbedding is called once, with the whole
\* normalized text, no chunk promise and no chunk document exists, and the
\* upload ends with exactly one document, a non-chunk holding the whole
\* normalized text.
C16_Unsplit ==
    /\ chunks = <<>> /\ chunkPromises = <<>> /\ parentDoc = 0
    /\ upc \notin ChunkPath
    /\ embeddingCalls = <<Whole(cleanedContent)>>
    /\ ChunksStored = {}
    /\ Cardinality(Stored) <= 1
    /\ upc = "INDEXED" <=> Cardinality(Stored) = 1
    /\ \A id \in Stored :
           /\ documents[id].chunkCount = 0
           /\ documents[id].content = Whole(cleanedContent)

C16_Split ==
    /\ chunks = chunkText(cleanedContent, ChunkSize, ChunkOverlap)
    /\ Len(chunks) > 1
    /\ upc \notin SinglePath
    /\ docEmbedding = Null
    /\ \A id \in ChunksStored :
           /\ documents[id].content.len <= ChunkSize
           /\ documents[id].content = chunks[documents[id].chunkIndex + 1].text
    /\ \A i \in 1..Len(embeddingCalls) : embeddingCalls[i].len <= ChunkSize

C16_ChunkedIffOverThreshold ==
    Accepted =>
        IF cleanedContent.len > ChunkThreshold THEN C16_Split ELSE C16_Unsplit

\* an upload longer than the threshold whose normalized text has exactly
\* ChunkThreshold characters was stored as one document
C16_Witness ==
    /\ upc = "INDEXED"
    /\ ureq.content.len > ChunkThreshold
    /\ cleanedContent.len = ChunkThreshold
    /\ Cardinality(Stored) = 1
    /\ ChunksStored = {}

HasEmbedding(d) == d.embedding.dim > 0
OwnEmbedding(d) == HasEmbedding(d) /\ d.embeddingOf = d.content
SplitParent(d)  == ~d.isChunk /\ d.chunkCount > 0

\* C17 as stated: in every state of the collection a split parent has no
\* embedding, and every unsplit parent and every chunk has an embedding,
\* computed from its own text.
C17_ExactlyOneEmbedding ==
    \A id \in Stored :
        IF SplitParent(documents[id]) THEN ~HasEmbedding(documents[id])
        ELSE OwnEmbedding(documents[id])

\* C17, amended: in every state of the collection a split parent has no
\* embedding; an unsplit parent or a chunk has either no embedding (the
\* embedding call for it failed) or the embedding computed from its own
\* text, never one computed from another text.
C17_OwnEmbeddingOrNone ==
    \A id \in Stored :
        IF SplitParent(documents[id]) THEN ~HasEmbedding(documents[id])
        ELSE ~HasEmbedding(documents[id]) \/ OwnEmbedding(documents[id])

\* a split upload is indexed with one chunk that has its own embedding and a
\* sibling that has none
C17_Witness ==
    /\ upc = "INDEXED"
    /\ \E a, b \in ChunksStored :
           /\ documents[a].parentDocumentId = documents[b].parentDocumentId
           /\ OwnEmbedding(documents[a])
           /\ ~HasEmbedding(documents[b])

\* the stored chunk documents of parent document p
ChunksOf(p) == { id \in ChunksStored : documents[id].parentDocumentId = p }

\* C18: when a chunk's embedding call comes back, failed or not, that chunk
\* goes on to its DocumentModel.create (with an empty embedding if the call
\* failed) and no other chunk's promise is touched; and when a split upload
\* has ended with 201, every one of its N chunks is in the collection,
\* whichever of their embedding calls failed.
C18_Isolated ==
    \A i \in 1..Len(chunkPromises) :
        chunkPromises[i].state = "EMBEDDING"
        /\ chunkPromises'[i] # chunkPromises[i] =>
            /\ chunkPromises'[i].state \in {"CREATING", "EMBEDDING_PENDING"}
            /\ \A j \in 1..Len(chunkPromises) \ {i} :
                   chunkPromises'[j] = chunkPromises[j]
            /\ UNCHANGED <<documents, upc>>

C18_AllStored ==
    /\ upc = "INDEXED" /\ Len(chunks) > 0 =>
           /\ Cardinality(ChunksOf(parentDoc)) = Len(chunks)
           /\ \A i \in 1..Len(chunks) :
                  \E id \in ChunksOf(parentDoc) :
                      /\ documents[id].chunkIndex = chunks[i].index
                      /\ documents[id].content = chunks[i].text
    /\ \A i \in 1..Len(chunkPromises) :
           chunkPromises[i].state = "CREATING" =>
               OrEmpty(chunkPromises[i].embedding).kind = "vector"

C18_EmbeddingFailureKeepsChunk ==
    [](C18_AllStored) /\ [][C18_Isolated]_vars

\* a document of four chunks is indexed: the embedding calls of the first
\* and third chunk failed, those of the second and fourth did not
C18_Witness ==
    /\ upc = "INDEXED"
    /\ Len(chunks) = 4
    /\ \A id \in ChunksOf(parentDoc) :
           HasEmbedding(documents[id]) <=> documents[id].chunkIndex \in {1, 3}
    /\ Cardinality(ChunksOf(parentDoc)) = 4

\* requests to the embedding provider that an upload has sent and that have
\* not been answered
InFlight ==
    IF voyageApiKey = "" THEN 0
    ELSE Cardinality({ i \in 1..Len(chunkPromises) :
             chunkPromises[i].state \in {"EMBEDDING", "EMBEDDING_PENDING"} })

\* A pool size that does not depend on the document: here the number of
\* chunks of the shortest document that is split.
WorkerPoolBound == ChunkCount(ChunkThreshold + 1, ChunkSize, ChunkOverlap)

\* C19: the embedding calls an upload has in flight at one time never
\* exceed the pool size, however many chunks the document has.
C19_BoundedFanOut == InFlight <= WorkerPoolBound

\* C20: in every state of the collection, a parent document that carries
\* chunkCount = N has its N chunk documents in the collection, so a reader
\* never sees a parent ahead of its chunks.
C20_ParentAfterChunks ==
    \A id \in Stored :
        SplitParent(documents[id]) =>
            Cardinality(ChunksOf(id)) = documents[id].chunkCount

\* ================================================== deletion of documents
\* the answer to the query { parentDocumentId: p }
Children(p) == { id \in Stored : documents[id].parentDocumentId = p }

\* C21: when deleteDocument has answered 200 for a document, that document
\* is gone and the query for the documents whose parentDocumentId is its id
\* returns nothing.
C21_ChunksGone ==
    xpc = "REMOVED" => xreq.id \notin Stored /\ Children(xreq.id) = {}

\* ------------------------------------------------------------- listing
\* what the category and search conditions may select
Filters    == { 1..id : id \in 0..Len(documents) }
Pages      == {1, 2}
PageSizes  == {1, 2, DefaultPageSize}
NotTrue    == {"false", "1"}

\* the documents that some listing shows; `strip` matters to a request with
\* includeChunks = 'true' only
Listed(includeChunks, strip) ==
    UNION { { l.documents[i] : i \in 1..Len(l.documents) } :
            l \in { getDocuments(includeChunks, matching, page, limit, strip) :
                       matching \in Filters, page \in Pages,
                       limit \in PageSizes } }

C22_NoChunkListed ==
    \A includeChunks \in NotTrue :
        \A id \in Listed(includeChunks, TRUE) : ~documents[id].isChunk

TargetIsChunk == FindById(xreq.id) /\ documents[xreq.id].isChunk

C22_ChunkDeletable ==
    /\ xpc = "FIND" /\ TargetIsChunk
           => xpc' \in {"DELETE_DOCUMENT", "REMOVE_FAILED"}
    /\ xpc = "DELETE_DOCUMENT" /\ TargetIsChunk
           => /\ xpc' \in {"REMOVED", "REMOVE_FAILED"}
              /\ xpc' = "REMOVED" => documents'[xreq.id].deleted
              /\ Len(documents') = Len(documents)
              /\ \A id \in 1..Len(documents) :
                    id # xreq.id => documents'[id] = documents[id]

\* C22: a listing whose includeChunks is not 'true' holds no chunk document,
\* whatever the category and search conditions select and whatever the page
\* and the page size; a delete by the id of a chunk finds the chunk, skips
\* the cascade, and on success removes that chunk and changes no other
\* document.
C22_ListingHidesChunks ==
    []C22_NoChunkListed /\ [][C22_ChunkDeletable]_vars

\* a chunk has been deleted by its id, its parent and its two siblings are
\* in the collection, and the default listing shows the parent
C22_Witness ==
    /\ xpc = "REMOVED"
    /\ xreq.id \in 1..Len(documents)
    /\ documents[xreq.id].isChunk
    /\ documents[xreq.id].parentDocumentId \in Listed("false", TRUE)
    /\ Cardinality(ChunksOf(documents[xreq.id].parentDocumentId)) = 2

\* ------------------------------------------------------ empty retrieval
EmptyRetrieval(r) == relevantDocs[r] = <<>>

\* C23: a search that returns no document, without throwing, leads to the
\* generation stage; when generateAnswer has been called after an empty
\* retrieval its context is empty and the prompt holds the statement that
\* no documents were found and no document; the response of such an ask
\* has an empty sources list.
C23_EmptyRetrievalStillAnswers ==
    \A r \in Requests :
        /\ searched[r].called /\ ~searched[r].threw /\ searched[r].results = <<>>
               => pc[r] = "GENERATING"
        /\ calls[r].generate > 0 /\ EmptyRetrieval(r)
               => /\ context[r] = <<>>
                  /\ Prompt(req[r].question, context[r]).context
                         = [statement |-> NoDocumentsFound, documents |-> <<>>]
        /\ pc[r] = "COMPLETED" /\ EmptyRetrieval(r)
               => response[r].sources = <<>>

\* an ask whose vector search and text search both returned nothing has
\* been answered
C23_Witness ==
    \E r \in Requests :
        /\ pc[r] = "COMPLETED"
        /\ calls[r].vector = 1 /\ calls[r].text = 1 /\ calls[r].generate = 1
        /\ context[r] = <<>>
        /\ response[r].status = 200
        /\ response[r].sources = <<>>

\* -------------------------------------------------------------- rendering
Rendered == returned.prompt.context.documents

\* C24: in the prompt built for a call of generateAnswer, the i-th rendered
\* document carries the index i, the title and the category of the i-th
\* context document, a relevance if and only if that document has a
\* similarity (zero included), and an excerpt of its content of at most
\* ExcerptBudget characters.
C24_EveryDocumentRendered ==
    returned.kind = "prompt" =>
        /\ Len(Rendered) = Len(call.context)
        /\ \A i \in 1..Len(call.context) :
              /\ Rendered[i].index = i
              /\ Rendered[i].title = call.context[i].title
              /\ "category" \in DOMAIN Rendered[i]
              /\ Rendered[i].category = call.context[i].category
              /\ Rendered[i].relevance.shown = call.context[i].similarity.defined
              /\ Rendered[i].content.src = call.context[i].content.src
              /\ Rendered[i].content.len <= ExcerptBudget

\* ---------------------------------------------------------- result limit
\* C25: what searchDocuments returns is never longer than its limit, the
\* default of 3 when the caller (processQuestion) gives none, whether the
\* results come from the vector search or from the text search.
C25_AtMostLimit ==
    returned.kind = "results" =>
        Len(returned.results) <= EffectiveLimit(call.limit)

\* the vector index holds five matches and the call, made without a limit,
\* returned three of them
C25_Witness ==
    /\ returned.kind = "results"
    /\ call.limit = LimitOmitted
    /\ call.vectorMatches = 5
    /\ ~returned.textCalled
    /\ Len(returned.results) = DefaultLimit

\* ---------------------------------------------------- concurrent requests
\* what one call of askQuestion holds
Locals(r) ==
    <<pc[r], req[r], embedding[r], embedReply[r], relevantDocs[r], searched[r],
      answer[r], context[r], conversationId[r], response[r], calls[r]>>

Stepping(r) == Locals(r)' # Locals(r)

\* a step of one request leaves what the other request holds as it was
C26_Frame(r) ==
    Stepping(r) => \A o \in Handlers \ {r} : Locals(o)' = Locals(o)

\* what a request retrieves, generates from, answers and stores comes from
\* its own question and from the replies to its own calls
C26_Own(r) ==
    /\ pc[r] = "RETRIEVING" /\ pc'[r] = "GENERATING" =>
          relevantDocs'[r] = searchDocuments(embedding[r], searched'[r].vector,
                                             searched'[r].text).results
    /\ pc[r] = "GENERATING" /\ pc'[r] # "GENERATING" =>
          /\ context'[r] = relevantDocs[r]
          /\ \E reply \in GenerationReplies :
                answer'[r] = generateAnswer(relevantDocs[r], reply).value
    /\ pc[r] # "COMPLETED" /\ pc'[r] = "COMPLETED" =>
          response'[r] = Reply200(req[r].question, answer[r],
                                  conversationId[r], relevantDocs[r])
    /\ Stepping(r) /\ messages' # messages =>
          \/ messages' = Append(messages, Message(r, "user", req[r].question))
          \/ messages' = Append(messages, Message(r, "model", answer[r]))

\* C26: in every interleaving of two asks, a step of one request changes
\* nothing the other request holds; the documents, the context, the answer,
\* the response and the stored messages of a request are those of its own
\* question and of the replies to its own calls; and no step writes the
\* state of the shared service object (its embedding key).
C26_RequestsIndependent ==
    [][ /\ voyageApiKey' = voyageApiKey
        /\ \A r \in Handlers : C26_Frame(r) /\ C26_Own(r) ]_vars

\* both requests have been answered, with different sources and answers,
\* and their message writes were interleaved
C26_Witness ==
    /\ pc[1] = "COMPLETED" /\ pc[2] = "COMPLETED"
    /\ response[1].sources # response[2].sources
    /\ response[1].answer # response[2].answer
    /\ Len(messages) = 4
    /\ messages[1].role = "user" /\ messages[2].role = "user"

\* ------------------------------------------------ a successful ingestion
Parents == { id \in Stored : ~documents[id].isChunk }

\* the embedding call of the i-th chunk returned a vector
Embedded(i) ==
    /\ chunkPromises[i].embedding.kind = "vector"
    /\ chunkPromises[i].embedding.dim > 0

C27_Indexed ==
    upc = "INDEXED" /\ Len(chunks) > 0 =>
        LET N == Len(chunks) IN
        /\ Parents = {parentDoc}
        /\ documents[parentDoc].chunkCount = N
        /\ ~HasEmbedding(documents[parentDoc])
        /\ Cardinality(ChunksOf(parentDoc)) = N
        /\ ChunksStored = ChunksOf(parentDoc)
        /\ \A c \in ChunksOf(parentDoc) : documents[c].chunkCount = N
        /\ { documents[c].chunkIndex : c \in ChunksOf(parentDoc) } = 0..(N - 1)

C27_EmbeddingKept ==
    \A i \in 1..Len(chunkPromises) :
        /\ chunkPromises[i].state = "CREATING"
        /\ chunkPromises'[i].state = "FULFILLED"
        /\ Embedded(i)
        => LET d == documents'[Len(documents')] IN
           /\ d.isChunk /\ d.parentDocumentId = parentDoc
           /\ d.chunkIndex = chunks[i].index
           /\ HasEmbedding(d)

\* C27: when an upload that was split in N chunks has been answered with
\* 201, the collection holds its parent, not a chunk, with chunkCount = N
\* and no embedding, and no other parent; exactly N chunks name that parent,
\* each with chunkCount = N; their chunkIndex values are 0..N-1, each once;
\* and a chunk whose embedding call returned a vector is written with an
\* embedding. (A text of 5000 characters is split in 6 chunks.)
C27_ParentAndChunks ==
    /\ ChunkCount(5000, ChunkSize, ChunkOverlap) = 6
    /\ []C27_Indexed
    /\ [][C27_EmbeddingKept]_vars

\* an upload split in four chunks has been answered with 201, every chunk
\* is stored with an embedding, and the chunks were written in another
\* order than that of their index
C27_Witness ==
    /\ upc = "INDEXED"
    /\ Len(chunks) = 4
    /\ Cardinality(ChunksOf(parentDoc)) = 4
    /\ \A c \in ChunksOf(parentDoc) : HasEmbedding(documents[c])
    /\ documents[parentDoc + 1].chunkIndex # 0

\* ------------------------------------------------------- orphan chunks
\* C28: every chunk in the collection names a parent that is in the
\* collection, in every state of an upload and of a deletion of its parent
\* that run side by side.
C28_NoChunkOutlivesParent ==
    \A c \in ChunksStored :
        /\ documents[c].parentDocumentId \in Stored
        /\ ~documents[documents[c].parentDocumentId].isChunk

\* ------------------------------------------------------- complete turns
\* a request has written its question to conversation c and not yet its
\* answer
MidTurn(c) ==
    \E r \in Handlers : pc[r] = "CREATE_MODEL_MESSAGE" /\ conversationId[r] = c

\* C29: the messages of every conversation alternate user, model, user,
\* model, ... from the first on, and outside the two writes of a request
\* every user message is followed by its answer, whatever the interleaving
\* of two asks and whichever message write fails.
C29_TurnsAlternate ==
    \A c \in 1..Len(conversations) :
        LET ms == MessagesOf(c) IN
        /\ \A i \in 1..Len(ms) :
              ms[i].role = IF i % 2 = 1 THEN "user" ELSE "model"
        /\ ~MidTurn(c) => Len(ms) % 2 = 0

\* ---------------------------------------------------- all or nothing
\* C30: when an upload has been answered with an error, the collection
\* holds neither a parent nor a chunk written by that upload.
C30_AllOrNothing ==
    upc = "FAILED" =>
        /\ parentDoc \notin Stored
        /\ \A id \in Stored : documents[id].parentDocumentId # parentDoc
        /\ Stored = {}

====
